---- MODULE Spec2Model ----
(***************************************************************************)
(* Model of the TradeAi backend (server.py and the serverless handlers     *)
(* under api/): image ingestion, the per-section API-key fallback walk,    *)
(* the four-section orchestration of /api/analyze-stock and the error      *)
(* classifier.                                                             *)
(*                                                                         *)
(* Text is modelled as a sequence of one-character strings so that         *)
(* substring, prefix and lower-casing are computed, not assumed.  The      *)
(* fixed user messages are plain strings (their leading emoji is left      *)
(* out).  An uploaded payload is a run of all-zero 3-byte groups followed  *)
(* by an explicit tail of bytes, so that payloads of 10 MiB can be         *)
(* written down.                                                           *)
(***************************************************************************)
EXTENDS Integers, Sequences, FiniteSets, TLC

\* Python's None, where a record may stand and where a string may stand.
None == [none |-> TRUE]
NoneStr == <<"None">>

(***************************************************************************)
(* Bounds of the model.                                                    *)
(***************************************************************************)
\* Number of distinct texts the external model can answer with.
MaxTexts == 2

\* Longest explicit byte tail of the uploads used for the encoding.
MaxTail == 3

\* Number of words in the error texts given to the classifier on its own.
MaxWords == 2

\* The texts chat.send_message can return.
Texts == {[text |-> <<"model answer ", ToString(n)>>] : n \in 1..MaxTexts}

(***************************************************************************)
(* Character helpers (str.lower, `in`, str.startswith).                    *)
(***************************************************************************)
UpperCase == <<"A","B","C","D","E","F","G","H","I","J","K","L","M","N","O","P","Q","R","S","T","U","V","W","X","Y","Z">>
LowerCase == <<"a","b","c","d","e","f","g","h","i","j","k","l","m","n","o","p","q","r","s","t","u","v","w","x","y","z">>

lower_char(c) ==
    IF \E k \in 1..Len(UpperCase) : UpperCase[k] = c
    THEN LowerCase[CHOOSE k \in 1..Len(UpperCase) : UpperCase[k] = c]
    ELSE c

\* str.lower()
lower(s) == [k \in 1..Len(s) |-> lower_char(s[k])]

upper_char(c) ==
    IF \E k \in 1..Len(LowerCase) : LowerCase[k] = c
    THEN UpperCase[CHOOSE k \in 1..Len(LowerCase) : LowerCase[k] = c]
    ELSE c

\* str.upper()
upper(s) == [k \in 1..Len(s) |-> upper_char(s[k])]

\* pat in s
Contains(s, pat) ==
    \E k \in 0..(Len(s) - Len(pat)) : \A j \in 1..Len(pat) : s[k + j] = pat[j]

\* s.startswith(pat)
startswith(s, pat) ==
    /\ Len(s) >= Len(pat)
    /\ \A j \in 1..Len(pat) : s[j] = pat[j]

s_503 == <<"5","0","3">>
s_overloaded == <<"o","v","e","r","l","o","a","d","e","d">>
s_unavailable == <<"u","n","a","v","a","i","l","a","b","l","e">>
s_401 == <<"4","0","1">>
s_unauthorized == <<"u","n","a","u","t","h","o","r","i","z","e","d">>
s_429 == <<"4","2","9">>
s_rate_limit == <<"r","a","t","e"," ","l","i","m","i","t">>
s_timeout == <<"t","i","m","e","o","u","t">>
s_network == <<"n","e","t","w","o","r","k">>
s_connection == <<"c","o","n","n","e","c","t","i","o","n">>
s_file == <<"f","i","l","e">>
s_size == <<"s","i","z","e">>
s_invalid == <<"i","n","v","a","l","i","d">>
s_image == <<"i","m","a","g","e">>
s_image_slash == <<"i","m","a","g","e","/">>

(***************************************************************************)
(* Error classifier: get_user_friendly_error.                              *)
(***************************************************************************)
MSG_BUSY == "The AI service is currently busy. Please try again in a few moments."
MSG_AUTH == "Authentication issue with the AI service. Please contact support."
MSG_THROTTLE == "Too many requests. Please wait a moment and try again."
MSG_TIMEOUT == "The analysis is taking longer than expected. Please try again."
MSG_NETWORK == "Network connectivity issue. Please check your internet connection."
MSG_OVERSIZE == "The uploaded image is too large. Please use a smaller image file."
MSG_BADIMAGE == "Invalid image format. Please upload a valid chart image (PNG, JPG, or GIF)."
MSG_GENERIC == "Something went wrong during analysis. Please try again or contact support."

\* Variant: the throttle patterns are tested before the busy patterns.
get_user_friendly_error_throttle_first(error_str) ==
    LET error_lower == lower(error_str) IN
    IF Contains(error_str, s_429) \/ Contains(error_lower, s_rate_limit)
    THEN MSG_THROTTLE
    ELSE IF Contains(error_str, s_503) \/ Contains(error_lower, s_overloaded)
           \/ Contains(error_lower, s_unavailable)
    THEN MSG_BUSY
    ELSE IF Contains(error_str, s_401) \/ Contains(error_lower, s_unauthorized)
    THEN MSG_AUTH
    ELSE IF Contains(error_lower, s_timeout)
    THEN MSG_TIMEOUT
    ELSE IF Contains(error_lower, s_network) \/ Contains(error_lower, s_connection)
    THEN MSG_NETWORK
    ELSE IF Contains(error_lower, s_file) /\ Contains(error_lower, s_size)
    THEN MSG_OVERSIZE
    ELSE IF Contains(error_lower, s_invalid) /\ Contains(error_lower, s_image)
    THEN MSG_BADIMAGE
    ELSE MSG_GENERIC

\* Variant: "overloaded" is looked for in the text as given.
get_user_friendly_error_case_sensitive(error_str) ==
    LET error_lower == lower(error_str) IN
    IF Contains(error_str, s_503) \/ Contains(error_str, s_overloaded)
           \/ Contains(error_lower, s_unavailable)
    THEN MSG_BUSY
    ELSE IF Contains(error_str, s_401) \/ Contains(error_lower, s_unauthorized)
    THEN MSG_AUTH
    ELSE IF Contains(error_str, s_429) \/ Contains(error_lower, s_rate_limit)
    THEN MSG_THROTTLE
    ELSE IF Contains(error_lower, s_timeout)
    THEN MSG_TIMEOUT
    ELSE IF Contains(error_lower, s_network) \/ Contains(error_lower, s_connection)
    THEN MSG_NETWORK
    ELSE IF Contains(error_lower, s_file) /\ Contains(error_lower, s_size)
    THEN MSG_OVERSIZE
    ELSE IF Contains(error_lower, s_invalid) /\ Contains(error_lower, s_image)
    THEN MSG_BADIMAGE
    ELSE MSG_GENERIC

\* Variant: a text that matches no pattern gets a message of its own.
get_user_friendly_error_no_generic(error_str) ==
    LET error_lower == lower(error_str) IN
    IF Contains(error_str, s_503) \/ Contains(error_lower, s_overloaded)
           \/ Contains(error_lower, s_unavailable)
    THEN MSG_BUSY
    ELSE IF Contains(error_str, s_401) \/ Contains(error_lower, s_unauthorized)
    THEN MSG_AUTH
    ELSE IF Contains(error_str, s_429) \/ Contains(error_lower, s_rate_limit)
    THEN MSG_THROTTLE
    ELSE IF Contains(error_lower, s_timeout)
    THEN MSG_TIMEOUT
    ELSE IF Contains(error_lower, s_network) \/ Contains(error_lower, s_connection)
    THEN MSG_NETWORK
    ELSE IF Contains(error_lower, s_file) /\ Contains(error_lower, s_size)
    THEN MSG_OVERSIZE
    ELSE IF Contains(error_lower, s_invalid) /\ Contains(error_lower, s_image)
    THEN MSG_BADIMAGE
    ELSE "Internal Server Error"

get_user_friendly_error(error_str) ==
    LET error_lower == lower(error_str) IN
    IF Contains(error_str, s_503) \/ Contains(error_lower, s_overloaded)
           \/ Contains(error_lower, s_unavailable)
    THEN MSG_BUSY
    ELSE IF Contains(error_str, s_401) \/ Contains(error_lower, s_unauthorized)
    THEN MSG_AUTH
    ELSE IF Contains(error_str, s_429) \/ Contains(error_lower, s_rate_limit)
    THEN MSG_THROTTLE
    ELSE IF Contains(error_lower, s_timeout)
    THEN MSG_TIMEOUT
    ELSE IF Contains(error_lower, s_network) \/ Contains(error_lower, s_connection)
    THEN MSG_NETWORK
    ELSE IF Contains(error_lower, s_file) /\ Contains(error_lower, s_size)
    THEN MSG_OVERSIZE
    ELSE IF Contains(error_lower, s_invalid) /\ Contains(error_lower, s_image)
    THEN MSG_BADIMAGE
    ELSE MSG_GENERIC

(***************************************************************************)
(* Errors the external AI service raises (str(e) of the exception).        *)
(***************************************************************************)
e_503 == <<"5","0","3"," ","S","e","r","v","i","c","e"," ","U","n","a","v","a","i","l","a","b","l","e">>
e_overloaded == <<"M","o","d","e","l"," ","O","v","e","r","l","o","a","d","e","d">>
e_401 == <<"4","0","1"," ","U","n","a","u","t","h","o","r","i","z","e","d">>
e_429 == <<"4","2","9"," ","R","a","t","e"," ","L","i","m","i","t">>
e_timeout == <<"R","e","q","u","e","s","t"," ","T","i","m","e","o","u","t">>
e_network == <<"C","o","n","n","e","c","t","i","o","n"," ","r","e","s","e","t">>
e_other == <<"b","o","o","m">>

GatewayErrors == {e_503, e_overloaded, e_401, e_429, e_timeout, e_network, e_other}

(***************************************************************************)
(* base64.b64encode(...).decode('utf-8')                                   *)
(***************************************************************************)
B64Alphabet == <<"A","B","C","D","E","F","G","H","I","J","K","L","M","N","O","P","Q","R","S","T","U","V","W","X","Y","Z","a","b","c","d","e","f","g","h","i","j","k","l","m","n","o","p","q","r","s","t","u","v","w","x","y","z","0","1","2","3","4","5","6","7","8","9","+","/">>

B64Char(n) == B64Alphabet[n + 1]

RECURSIVE b64encode_bytes(_)
b64encode_bytes(bs) ==
    IF Len(bs) = 0 THEN <<>>
    ELSE IF Len(bs) = 1 THEN
        LET n == bs[1] * 65536 IN
        <<B64Char(n \div 262144), B64Char((n \div 4096) % 64), "=", "=">>
    ELSE IF Len(bs) = 2 THEN
        LET n == bs[1] * 65536 + bs[2] * 256 IN
        <<B64Char(n \div 262144), B64Char((n \div 4096) % 64),
          B64Char((n \div 64) % 64), "=">>
    ELSE
        LET n == bs[1] * 65536 + bs[2] * 256 + bs[3] IN
        <<B64Char(n \div 262144), B64Char((n \div 4096) % 64),
          B64Char((n \div 64) % 64), B64Char(n % 64)>>
        \o b64encode_bytes(SubSeq(bs, 4, Len(bs)))

\* A payload is `groups` leading groups of three zero bytes followed by the
\* bytes of `tail`; its encoding is `groups` times "AAAA" followed by the
\* encoding of the tail.
Payload(groups, tail) == [groups |-> groups, tail |-> tail]

len(content) == 3 * content.groups + Len(content.tail)

\* Variant: a trailing group of one or two bytes is not encoded.
b64encode_no_tail(content) ==
    [groups |-> content.groups,
     text |-> b64encode_bytes(SubSeq(content.tail, 1, 3 * (Len(content.tail) \div 3)))]

b64encode(content) ==
    [groups |-> content.groups, text |-> b64encode_bytes(content.tail)]

(***************************************************************************)
(* Image Ingestor: process_uploaded_image.                                 *)
(***************************************************************************)
ct_image_png == <<"i","m","a","g","e","/","p","n","g">>
ct_text_plain == <<"t","e","x","t","/","p","l","a","i","n">>

MSG_TOO_LARGE == "The uploaded image is too large. Please use an image smaller than 10MB."
MSG_INVALID_TYPE == "Invalid file type. Please upload a valid image file (PNG, JPG, or GIF)."
MSG_EMPTY == "The uploaded file is empty. Please select a valid image file."

max_size == 10 * 1024 * 1024

\* 10 MiB = 3 * MiBGroups + 1
MiBGroups == max_size \div 3

\* The uploads the model submits: 0 bytes, 1 byte, exactly 10 MiB and
\* 10 MiB + 1 bytes, each with no content type, an empty one, an image type
\* and a non-image type, and with a read that works or raises.
Contents ==
    { Payload(0, <<>>), Payload(0, <<137>>),
      Payload(MiBGroups, <<255>>), Payload(MiBGroups, <<80, 78>>) }

ContentTypes == {NoneStr, <<>>, ct_image_png, ct_text_plain}

ReadErrors == {NoneStr, e_network}

UploadFiles ==
    [content : Contents, content_type : ContentTypes, read_error : ReadErrors]

\* Further image/png uploads for /api/upload-image: every byte sequence of
\* at most MaxTail bytes over a few byte values, alone or after one group of
\* zero bytes.
ByteSamples == {0, 1, 77, 128, 255}

Tails == UNION {[1..n -> ByteSamples] : n \in 0..MaxTail}

SmallFiles ==
    {[content |-> Payload(g, t), content_type |-> ct_image_png,
      read_error |-> NoneStr] : g \in {0, 1}, t \in Tails}

HTTPException(status_code, detail) ==
    [exc |-> "HTTPException", status_code |-> status_code, detail |-> detail]

IsHTTPException(r) == "exc" \in DOMAIN r

\* Variant: the size check rejects a payload of exactly max_size bytes.
process_uploaded_image_ge(image_file) ==
    IF image_file.read_error # NoneStr
    THEN HTTPException(500, get_user_friendly_error(image_file.read_error))
    ELSE LET image_content == image_file.content IN
         IF len(image_content) >= max_size
         THEN HTTPException(400, MSG_TOO_LARGE)
         ELSE IF image_file.content_type = NoneStr \/ image_file.content_type = <<>>
                   \/ ~startswith(image_file.content_type, s_image_slash)
         THEN HTTPException(400, MSG_INVALID_TYPE)
         ELSE IF len(image_content) = 0
         THEN HTTPException(400, MSG_EMPTY)
         ELSE [image_base64 |-> b64encode(image_content)]

\* Variant: the type check applies only when a content type is declared.
process_uploaded_image_declared_only(image_file) ==
    IF image_file.read_error # NoneStr
    THEN HTTPException(500, get_user_friendly_error(image_file.read_error))
    ELSE LET image_content == image_file.content IN
         IF len(image_content) > max_size
         THEN HTTPException(400, MSG_TOO_LARGE)
         ELSE IF /\ image_file.content_type # NoneStr
                 /\ image_file.content_type # <<>>
                 /\ ~startswith(image_file.content_type, s_image_slash)
         THEN HTTPException(400, MSG_INVALID_TYPE)
         ELSE IF len(image_content) = 0
         THEN HTTPException(400, MSG_EMPTY)
         ELSE [image_base64 |-> b64encode(image_content)]

\* The value process_uploaded_image returns, or the HTTPException it raises.
process_uploaded_image(image_file) ==
    IF image_file.read_error # NoneStr
    THEN HTTPException(500, get_user_friendly_error(image_file.read_error))
    ELSE LET image_content == image_file.content IN
         IF len(image_content) > max_size
         THEN HTTPException(400, MSG_TOO_LARGE)
         ELSE IF image_file.content_type = NoneStr \/ image_file.content_type = <<>>
                   \/ ~startswith(image_file.content_type, s_image_slash)
         THEN HTTPException(400, MSG_INVALID_TYPE)
         ELSE IF len(image_content) = 0
         THEN HTTPException(400, MSG_EMPTY)
         ELSE [image_base64 |-> b64encode(image_content)]

(***************************************************************************)
(* State.                                                                  *)
(***************************************************************************)
section_names == <<"Fundamental", "Sentiment", "Technical", "Recommendations">>

Sections == {section_names[k] : k \in 1..Len(section_names)}

\* Every function that walks the key chain: the four sections and the three
\* single-prompt walkers (analyze_with_fallback,
\* analyze_stock_with_gemini_legacy, analyze_stock_with_gemini).
Walkers == Sections \cup {"Fallback", "Legacy", "Deprecated"}

VARIABLES
    GEMINI_API_KEYS,      \* the module-level key list
    pc,                   \* position of the request handler
    request,              \* the upload of the request being served
    chart_image_base64,   \* the encoded image of the request
    sec,                  \* per walker: position in the chain and outcome
    calls,                \* per walker: the gateway calls issued, in order
    errlog,               \* per walker: the errors its calls raised (all of
                          \* them in an audited run, otherwise only the one
                          \* that exhausted the chain)
    response,             \* what the client receives
    status_lines,         \* status lines a serverless handler has sent
    audit,                \* whether errlog is recorded in this run
    done_order            \* in an audited run, the walkers in the order they
                          \* finished

vars == <<GEMINI_API_KEYS, pc, request, chart_image_base64, sec, calls,
          errlog, response, status_lines, audit, done_order>>

InitialKeys == <<"primary", "backup1", "backup2">>

IdleSec == [st |-> "idle", i |-> 0, value |-> None]

Init ==
    /\ GEMINI_API_KEYS = InitialKeys
    /\ pc = "idle"
    /\ request = None
    /\ chart_image_base64 = None
    /\ sec = [w \in Walkers |-> IdleSec]
    /\ calls = [w \in Walkers |-> <<>>]
    /\ errlog = [w \in Walkers |-> <<>>]
    /\ response = None
    /\ status_lines = <<>>
    /\ audit = FALSE
    /\ done_order = <<>>

(***************************************************************************)
(* LLM Gateway and the fallback walk.                                      *)
(***************************************************************************)
\* Variant: every section walker passes the image of the request.
walk_image_all(w) == chart_image_base64

\* The image argument the walker passes to analyze_with_gemini_api.
walk_image(w) ==
    IF w \in {"Fundamental", "Sentiment", "Recommendations"}
    THEN None
    ELSE chart_image_base64

\* analyze_with_gemini_api: `if chart_image_base64:` puts the image into
\* the user message; None and the empty text make a text-only message.
message_image(image) ==
    IF image = None THEN None
    ELSE IF image.groups = 0 /\ image.text = <<>> THEN None
    ELSE image

\* Variant: every attempt is made with the first key of the chain.
CallGateway_same_key(w) ==
    /\ sec[w].st = "ready"
    /\ sec[w].i < Len(GEMINI_API_KEYS)
    /\ calls' = [calls EXCEPT ![w] =
                    Append(@, [api_key |-> GEMINI_API_KEYS[1],
                               image |-> walk_image(w),
                               out |-> "pending",
                               text |-> None])]
    /\ sec' = [sec EXCEPT ![w].st = "inflight"]
    /\ UNCHANGED <<GEMINI_API_KEYS, pc, request, chart_image_base64, errlog,
                   response, status_lines, audit, done_order>>

\* for i, api_key in enumerate(GEMINI_API_KEYS): the walker issues the call
\* analyze_with_gemini_api(api_key, prompt[, image]) and suspends on it.
CallGateway(w) ==
    /\ sec[w].st = "ready"
    /\ sec[w].i < Len(GEMINI_API_KEYS)
    /\ calls' = [calls EXCEPT ![w] =
                    Append(@, [api_key |-> GEMINI_API_KEYS[sec[w].i + 1],
                               image |-> walk_image(w),
                               out |-> "pending",
                               text |-> None])]
    /\ sec' = [sec EXCEPT ![w].st = "inflight"]
    /\ UNCHANGED <<GEMINI_API_KEYS, pc, request, chart_image_base64, errlog,
                   response, status_lines, audit, done_order>>

\* Variant: the walker keeps the text but goes on to the next key when there
\* is one (a missing return inside the loop).
GatewayReturn_continue(w, text) ==
    /\ sec[w].st = "inflight"
    /\ calls' = [calls EXCEPT ![w][Len(calls[w])].out = "returned",
                              ![w][Len(calls[w])].text = text]
    /\ sec' = [sec EXCEPT ![w] =
                  IF sec[w].i = Len(GEMINI_API_KEYS) - 1
                  THEN [st |-> "returned", i |-> sec[w].i, value |-> text]
                  ELSE [st |-> "ready", i |-> sec[w].i + 1, value |-> None]]
    /\ UNCHANGED <<GEMINI_API_KEYS, pc, request, chart_image_base64, errlog,
                   response, status_lines, audit>>
    /\ done_order' = IF audit /\ sec'[w].st = "returned" THEN Append(done_order, w)
                   ELSE done_order

\* chat.send_message returned: the walker returns the text at once.
GatewayReturn(w, text) ==
    /\ sec[w].st = "inflight"
    /\ calls' = [calls EXCEPT ![w][Len(calls[w])].out = "returned",
                              ![w][Len(calls[w])].text = text]
    /\ sec' = [sec EXCEPT ![w] = [st |-> "returned", i |-> sec[w].i, value |-> text]]
    /\ UNCHANGED <<GEMINI_API_KEYS, pc, request, chart_image_base64, errlog,
                   response, status_lines, audit>>
    /\ done_order' = IF audit /\ sec'[w].st = "returned" THEN Append(done_order, w)
                   ELSE done_order

\* Variant: after exhaustion the first recorded error is classified.
walk_except_first_error(w, i, error_str) ==
    IF i = Len(GEMINI_API_KEYS) - 1
    THEN [st |-> "raised", i |-> i,
          value |-> HTTPException(503, get_user_friendly_error(
                        IF Len(errlog[w]) > 0 THEN errlog[w][1] ELSE error_str))]
    ELSE [st |-> "ready", i |-> i + 1, value |-> None]

\* Variant: an authentication failure ends the walk at once.
walk_except_stop_on_auth(w, i, error_str) ==
    IF i = Len(GEMINI_API_KEYS) - 1 \/ Contains(error_str, s_401)
    THEN [st |-> "raised", i |-> i,
          value |-> HTTPException(503, get_user_friendly_error(error_str))]
    ELSE [st |-> "ready", i |-> i + 1, value |-> None]

\* The except clause of a walker: on the last key raise
\* HTTPException(503, get_user_friendly_error(str(e))), otherwise continue.
walk_except(w, i, error_str) ==
    IF i = Len(GEMINI_API_KEYS) - 1
    THEN [st |-> "raised", i |-> i,
          value |-> HTTPException(503, get_user_friendly_error(error_str))]
    ELSE IF w = "Fallback"
    THEN IF Contains(error_str, s_503) \/ Contains(lower(error_str), s_overloaded)
         THEN [st |-> "ready", i |-> i + 1, value |-> None]
         ELSE [st |-> "ready", i |-> i + 1, value |-> None]
    ELSE [st |-> "ready", i |-> i + 1, value |-> None]

\* Variant: a key whose call raised is removed from the shared key list.
GatewayRaise_drop_key(w, error_str) ==
    /\ sec[w].st = "inflight"
    /\ calls' = [calls EXCEPT ![w][Len(calls[w])].out = "raised"]
    /\ errlog' = IF audit THEN [errlog EXCEPT ![w] = Append(@, error_str)]
                 ELSE IF sec[w].i = Len(GEMINI_API_KEYS) - 1
                 THEN [errlog EXCEPT ![w] = <<error_str>>]
                 ELSE errlog
    /\ sec' = [sec EXCEPT ![w] = walk_except(w, sec[w].i, error_str)]
    /\ GEMINI_API_KEYS' =
          IF Len(GEMINI_API_KEYS) > 1
          THEN SelectSeq(GEMINI_API_KEYS,
                         LAMBDA k : k # calls[w][Len(calls[w])].api_key)
          ELSE GEMINI_API_KEYS
    /\ UNCHANGED <<pc, request, chart_image_base64, response, status_lines, audit>>
    /\ done_order' = IF audit /\ sec'[w].st = "raised" THEN Append(done_order, w)
                   ELSE done_order

\* chat.send_message raised: analyze_with_gemini_api re-raises and the
\* walker's except clause runs.
GatewayRaise(w, error_str) ==
    /\ sec[w].st = "inflight"
    /\ calls' = [calls EXCEPT ![w][Len(calls[w])].out = "raised"]
    /\ errlog' = IF audit THEN [errlog EXCEPT ![w] = Append(@, error_str)]
                 ELSE IF sec[w].i = Len(GEMINI_API_KEYS) - 1
                 THEN [errlog EXCEPT ![w] = <<error_str>>]
                 ELSE errlog
    /\ sec' = [sec EXCEPT ![w] = walk_except(w, sec[w].i, error_str)]
    /\ UNCHANGED <<GEMINI_API_KEYS, pc, request, chart_image_base64,
                   response, status_lines, audit>>
    /\ done_order' = IF audit /\ sec'[w].st = "raised" THEN Append(done_order, w)
                   ELSE done_order

(***************************************************************************)
(* Endpoints of server.py.                                                 *)
(***************************************************************************)
\* POST /api/upload-image
upload_image(file) ==
    /\ pc = "idle"
    /\ request' = [endpoint |-> "upload-image", image |-> file]
    /\ LET r == process_uploaded_image(file) IN
       response' = IF IsHTTPException(r) THEN r
                   ELSE [status_code |-> 200, success |-> TRUE,
                         image_data |-> r.image_base64]
    /\ pc' = "done"
    /\ UNCHANGED <<GEMINI_API_KEYS, chart_image_base64, sec, calls, errlog,
                   status_lines, audit, done_order>>

\* Variant: the four section tasks are created before the image is
\* processed, so they stay scheduled when the image is rejected.
analyze_stock_start_tasks_first(image) ==
    /\ pc = "idle"
    /\ request' = [endpoint |-> "analyze-stock", image |-> image]
    /\ sec' = [w \in Walkers |->
                  IF w \in Sections
                  THEN [st |-> "ready", i |-> 0, value |-> None]
                  ELSE sec[w]]
    /\ LET r == process_uploaded_image(image) IN
       IF IsHTTPException(r)
       THEN /\ response' = r
            /\ pc' = "done"
            /\ UNCHANGED chart_image_base64
       ELSE /\ chart_image_base64' = r.image_base64
            /\ pc' = "gather"
            /\ UNCHANGED response
    /\ UNCHANGED <<GEMINI_API_KEYS, calls, errlog, status_lines, audit, done_order>>

\* POST /api/analyze-stock, up to the await of asyncio.gather: process the
\* image, then create the four section tasks.
analyze_stock_start(image) ==
    /\ pc = "idle"
    /\ request' = [endpoint |-> "analyze-stock", image |-> image]
    /\ LET r == process_uploaded_image(image) IN
       IF IsHTTPException(r)
       THEN /\ response' = r
            /\ pc' = "done"
            /\ UNCHANGED <<chart_image_base64, sec>>
       ELSE /\ chart_image_base64' = r.image_base64
            /\ sec' = [w \in Walkers |->
                          IF w \in Sections
                          THEN [st |-> "ready", i |-> 0, value |-> None]
                          ELSE sec[w]]
            /\ pc' = "gather"
            /\ UNCHANGED response
    /\ UNCHANGED <<GEMINI_API_KEYS, calls, errlog, status_lines, audit, done_order>>

Finished(w) == sec[w].st \in {"returned", "raised"}

\* Variant: the handler is resumed only by four results; a task that ended
\* with an exception never completes the wait.
gather_ready_all_returned == \A w \in Sections : sec[w].st = "returned"

\* Variant: the wait ends as soon as one task has finished
\* (return_when=FIRST_COMPLETED), whatever the others are doing.
gather_ready_first_completed == \E w \in Sections : Finished(w)

\* asyncio.gather(..., return_exceptions=True) resumes the handler once
\* every task has finished.
gather_ready == \A w \in Sections : Finished(w)

Placeholder(name) ==
    [text |-> <<name, " analysis temporarily unavailable. Please try again.">>]

\* Variant: the results are taken in the order the tasks finished
\* (asyncio.as_completed), not in the order of the arguments of gather.
analyses_completion_order(k) ==
    LET w == IF k <= Len(done_order) THEN done_order[k] ELSE section_names[k]
        analysis == sec[w].value
    IN IF IsHTTPException(analysis) THEN Placeholder(section_names[k]) ELSE analysis

\* Variant: a failed section keeps its exception.
analyses_keep_exception(k) == sec[section_names[k]].value

\* analyses[i] after the loop that replaces exceptions.
analyses(k) ==
    LET analysis == sec[section_names[k]].value IN
    IF IsHTTPException(analysis) THEN Placeholder(section_names[k]) ELSE analysis

\* Variant: gather without return_exceptions: the first exception resumes
\* the handler, which re-raises it.
analyze_stock_join_fail_fast ==
    /\ pc = "gather"
    /\ gather_ready \/ \E w \in Sections : sec[w].st = "raised"
    /\ response' =
          IF \E w \in Sections : sec[w].st = "raised"
          THEN sec[CHOOSE w \in Sections : sec[w].st = "raised"].value
          ELSE [status_code |-> 200,
                chart_image |-> [prefix |-> "data:image/png;base64,",
                                 data |-> chart_image_base64],
                fundamental_analysis |-> analyses(1),
                sentiment_analysis |-> analyses(2),
                technical_analysis |-> analyses(3),
                recommendations |-> analyses(4)]
    /\ pc' = "done"
    /\ UNCHANGED <<GEMINI_API_KEYS, request, chart_image_base64, sec, calls,
                   errlog, status_lines, audit, done_order>>

\* POST /api/analyze-stock, from the resumption after gather to the return.
analyze_stock_join ==
    /\ pc = "gather"
    /\ gather_ready
    /\ response' = [status_code |-> 200,
                    chart_image |-> [prefix |-> "data:image/png;base64,",
                                     data |-> chart_image_base64],
                    fundamental_analysis |-> analyses(1),
                    sentiment_analysis |-> analyses(2),
                    technical_analysis |-> analyses(3),
                    recommendations |-> analyses(4)]
    /\ pc' = "done"
    /\ UNCHANGED <<GEMINI_API_KEYS, request, chart_image_base64, sec, calls,
                   errlog, status_lines, audit, done_order>>

(***************************************************************************)
(* Legacy endpoint of server.py: chart fetch, one legacy walk, response.   *)
(***************************************************************************)
\* Fields of StockAnalysisResponse, all declared `str` without a default.
StockAnalysisResponse_fields ==
    <<"symbol", "exchange", "chart_image", "analysis", "fundamental_analysis",
      "sentiment_analysis", "technical_analysis", "recommendations", "timestamp">>

\* str() of the pydantic ValidationError for a first missing field, in the
\* wording of pydantic 1 and of pydantic 2.
s_validation_header == <<"4"," ","v","a","l","i","d","a","t","i","o","n"," ","e","r","r","o","r","s"," ","f","o","r"," ","S","t","o","c","k","A","n","a","l","y","s","i","s","R","e","s","p","o","n","s","e","\n">>
s_fundamental_analysis == <<"f","u","n","d","a","m","e","n","t","a","l","_","a","n","a","l","y","s","i","s","\n"," "," ">>
s_field_required_v1 == <<"f","i","e","l","d"," ","r","e","q","u","i","r","e","d"," ","(","t","y","p","e","=","v","a","l","u","e","_","e","r","r","o","r",".","m","i","s","s","i","n","g",")">>
s_field_required_v2 == <<"F","i","e","l","d"," ","r","e","q","u","i","r","e","d"," ","[","t","y","p","e","=","m","i","s","s","i","n","g",","," ","i","n","p","u","t","_","t","y","p","e","=","d","i","c","t","]">>

ValidationErrorTexts ==
    {s_validation_header \o s_fundamental_analysis \o s_field_required_v1,
     s_validation_header \o s_fundamental_analysis \o s_field_required_v2}

\* StockAnalysisResponse(**fields): the model, or the validation error that
\* names the required fields left out.
StockAnalysisResponse(fields) ==
    LET missing == {k \in 1..Len(StockAnalysisResponse_fields) :
                       StockAnalysisResponse_fields[k] \notin DOMAIN fields}
    IN IF missing = {} THEN fields
       ELSE [validation_error |-> {StockAnalysisResponse_fields[k] : k \in missing}]

ChartContents == {Payload(0, <<>>), Payload(0, <<137>>)}
ChartStatuses == {403, 429}

\* What requests.get does: a 200 answer with the image bytes, another status
\* with a body text, or an exception.  str() of the HTTPException raised for
\* a non-200 answer is "<status>: <detail>" or empty, by the library version.
FetchOutcomes ==
    {[kind |-> "ok", status_code |-> 200, content |-> c] : c \in ChartContents}
    \cup {[kind |-> "status", status_code |-> st, text |-> e_other, has_str |-> b] :
              st \in ChartStatuses, b \in BOOLEAN}
    \cup {[kind |-> "raise", error |-> e] : e \in {e_timeout, e_network}}

Symbols == {<<"a","a","p","l">>, <<"T","c","s">>}
Exchanges == {<<"n","s","e">>}

LegacyRequests == [symbol : Symbols, exchange : Exchanges]

\* fetch_chart_image: the base64 text, or the HTTPException its except
\* clause raises, whose detail is "Chart fetch error: " followed by str(e).
fetch_chart_image(outcome) ==
    IF outcome.kind = "ok" THEN [image_base64 |-> b64encode(outcome.content)]
    ELSE [exc |-> "HTTPException", status_code |-> 500,
          detail |-> "Chart fetch error: ",
          embedded |->
             IF outcome.kind = "raise" THEN [text |-> outcome.error]
             ELSE IF outcome.has_str
             THEN [status_code |-> outcome.status_code,
                   detail |-> "Failed to fetch chart: ",
                   text |-> outcome.text]
             ELSE [text |-> <<>>]]

\* Variant: a failed fetch is logged and the analysis goes on without chart.
analyze_stock_legacy_start_ignore_fetch(req, outcome) ==
    /\ pc = "idle"
    /\ request' = [endpoint |-> "analyze-stock-legacy", symbol |-> req.symbol,
                   exchange |-> req.exchange, fetch |-> outcome]
    /\ LET r == fetch_chart_image(outcome) IN
       /\ chart_image_base64' = IF IsHTTPException(r) THEN b64encode(Payload(0, <<>>))
                                 ELSE r.image_base64
       /\ sec' = [sec EXCEPT !["Legacy"] = [st |-> "ready", i |-> 0, value |-> None]]
       /\ pc' = "legacy"
       /\ UNCHANGED response
    /\ UNCHANGED <<GEMINI_API_KEYS, calls, errlog, status_lines, audit, done_order>>

\* POST /api/analyze-stock-legacy, up to the await of the legacy walk.
analyze_stock_legacy_start(req, outcome) ==
    /\ pc = "idle"
    /\ request' = [endpoint |-> "analyze-stock-legacy", symbol |-> req.symbol,
                   exchange |-> req.exchange, fetch |-> outcome]
    /\ LET r == fetch_chart_image(outcome) IN
       IF IsHTTPException(r)
       THEN /\ response' = r
            /\ pc' = "done"
            /\ UNCHANGED <<chart_image_base64, sec>>
       ELSE /\ chart_image_base64' = r.image_base64
            /\ sec' = [sec EXCEPT !["Legacy"] = [st |-> "ready", i |-> 0, value |-> None]]
            /\ pc' = "legacy"
            /\ UNCHANGED response
    /\ UNCHANGED <<GEMINI_API_KEYS, calls, errlog, status_lines, audit, done_order>>

\* POST /api/analyze-stock-legacy, from the end of the legacy walk: its
\* HTTPException is re-raised as is; its text goes into a
\* StockAnalysisResponse built from five fields, and the validation error
\* is classified by the generic except clause.
analyze_stock_legacy_finish(error_str) ==
    /\ pc = "legacy"
    /\ Finished("Legacy")
    /\ response' =
          IF sec["Legacy"].st = "raised" THEN sec["Legacy"].value
          ELSE LET r == StockAnalysisResponse(
                           [symbol |-> upper(request.symbol),
                            exchange |-> upper(request.exchange),
                            chart_image |-> [prefix |-> "data:image/png;base64,",
                                             data |-> chart_image_base64],
                            analysis |-> sec["Legacy"].value,
                            timestamp |-> "datetime.now().isoformat()"])
               IN IF "validation_error" \in DOMAIN r
                  THEN HTTPException(500, get_user_friendly_error(error_str))
                  ELSE r
    /\ pc' = "done"
    /\ UNCHANGED <<GEMINI_API_KEYS, request, chart_image_base64, sec, calls,
                   errlog, status_lines, audit, done_order>>

(***************************************************************************)
(* Serverless handler api/upload-image.py.                                 *)
(***************************************************************************)
EXC_CONTENT_TYPE == "Invalid content type"
EXC_NO_FILE == "No file uploaded"
EXC_NO_FILENAME == "No file selected"
EXC_EMPTY == "The uploaded file is empty"

\* The multipart forms the model posts to the handler.
Forms ==
    [multipart : BOOLEAN, has_file : BOOLEAN, filename : {"", "chart.png"},
     image : {f \in UploadFiles : f.read_error = NoneStr}]

\* The message of the exception the try block raises, or None.
handler_upload_exception(form) ==
    IF ~form.multipart THEN [error |-> EXC_CONTENT_TYPE]
    ELSE IF ~form.has_file THEN [error |-> EXC_NO_FILE]
    ELSE IF form.filename = "" THEN [error |-> EXC_NO_FILENAME]
    ELSE IF len(form.image.content) = 0 THEN [error |-> EXC_EMPTY]
    ELSE IF len(form.image.content) > 10 * 1024 * 1024 THEN [error |-> MSG_TOO_LARGE]
    ELSE None

\* handler.do_POST of api/upload-image.py
handler_upload_do_POST(form) ==
    /\ pc = "idle"
    /\ request' = [endpoint |-> "api/upload-image.py", image |-> form.image,
                   form |-> form]
    /\ LET e == handler_upload_exception(form) IN
       IF e = None
       THEN /\ status_lines' = <<200>>
            /\ response' = [success |-> TRUE,
                            image_data |-> b64encode(form.image.content),
                            filename |-> form.filename]
       ELSE /\ status_lines' = <<200, 400>>
            /\ response' = e
    /\ pc' = "done"
    /\ UNCHANGED <<GEMINI_API_KEYS, chart_image_base64, sec, calls, errlog, audit, done_order>>

(***************************************************************************)
(* Serverless handler api/analyze-stock.py.                                *)
(***************************************************************************)
EXC_NO_IMAGE == "No image file uploaded"
EXC_NO_IMAGE_NAME == "No image file selected"
EXC_NO_KEY == "Gemini API key not configured"
EXC_NOT_SERIALIZABLE == "Object of type coroutine is not JSON serializable"

AnalyzeForms ==
    [multipart : BOOLEAN, has_image : BOOLEAN, filename : {"", "chart.png"},
     image : {f \in UploadFiles : f.read_error = NoneStr},
     symbol : Symbols, exchange : Exchanges]

\* What self.analyze_with_gemini meets: chat.send_message is called without
\* await, so it hands back a text, a coroutine object, or something on the
\* way (LlmChat, ImageContent, UserMessage, the call itself) raises.
GeminiOutcomes ==
    {[kind |-> "text", text |-> t] : t \in Texts}
    \cup {[kind |-> "raise", error |-> e] : e \in GatewayErrors}
    \cup {[kind |-> "coroutine"]}

\* The analysis text of line 72: the message of the exception raised at
\* line 171, which embeds str(e) of the original error.
DemoAnalysis(error_str, symbol, exchange) ==
    [text |-> <<"Analysis temporarily unavailable: ",
                "The AI service is currently busy. Please try again in a few moments. (",
                ")", "This is a demo response for the uploaded chart of ">>,
     embedded |-> error_str, symbol |-> symbol, exchange |-> exchange]

\* The message of the exception the try block raises, or None.
handler_analyze_exception(form, gemini_api_key, outcome) ==
    IF ~form.multipart THEN [error |-> EXC_CONTENT_TYPE]
    ELSE IF ~form.has_image THEN [error |-> EXC_NO_IMAGE]
    ELSE IF form.filename = "" THEN [error |-> EXC_NO_IMAGE_NAME]
    ELSE IF len(form.image.content) = 0 THEN [error |-> EXC_EMPTY]
    ELSE IF len(form.image.content) > 10 * 1024 * 1024 THEN [error |-> MSG_TOO_LARGE]
    ELSE IF gemini_api_key = "" THEN [error |-> EXC_NO_KEY]
    ELSE IF outcome.kind = "coroutine" THEN [error |-> EXC_NOT_SERIALIZABLE]
    ELSE None

\* handler.do_POST of api/analyze-stock.py
handler_analyze_do_POST(form, gemini_api_key, outcome) ==
    /\ pc = "idle"
    /\ request' = [endpoint |-> "api/analyze-stock.py", image |-> form.image,
                   form |-> form, gemini_api_key |-> gemini_api_key,
                   outcome |-> outcome]
    /\ LET e == handler_analyze_exception(form, gemini_api_key, outcome)
           symbol == upper(form.symbol)
           exchange == upper(form.exchange)
       IN
       IF e = None
       THEN /\ status_lines' = <<200>>
            /\ response' =
                  [symbol |-> symbol,
                   exchange |-> exchange,
                   chart_image |-> [prefix |-> "data:image/png;base64,",
                                    data |-> b64encode(form.image.content)],
                   analysis |-> IF outcome.kind = "raise"
                                THEN DemoAnalysis(outcome.error, symbol, exchange)
                                ELSE outcome.text]
       ELSE /\ status_lines' = <<200, 400>>
            /\ response' = e
    /\ pc' = "done"
    /\ UNCHANGED <<GEMINI_API_KEYS, chart_image_base64, sec, calls, errlog, audit, done_order>>

Next ==
    \/ pc = "idle" /\ \E file \in UploadFiles \cup SmallFiles : upload_image(file)
    \/ pc = "idle" /\ \E form \in Forms : handler_upload_do_POST(form)
    \/ pc = "idle" /\ \E form \in AnalyzeForms, gemini_api_key \in {"", "env key"},
                          outcome \in GeminiOutcomes :
                            handler_analyze_do_POST(form, gemini_api_key, outcome)
    \/ pc = "idle" /\ \E image \in UploadFiles : analyze_stock_start(image)
    \/ \E w \in Walkers : CallGateway(w)
    \/ \E w \in Walkers, text \in Texts : GatewayReturn(w, text)
    \/ \E w \in Walkers, error_str \in GatewayErrors : GatewayRaise(w, error_str)
    \/ analyze_stock_join
    \/ pc = "idle" /\ \E req \in LegacyRequests, outcome \in FetchOutcomes :
                          analyze_stock_legacy_start(req, outcome)
    \/ \E error_str \in ValidationErrorTexts : analyze_stock_legacy_finish(error_str)

Spec == Init /\ [][Next]_vars

(***************************************************************************)
(* One fallback walk on its own, with every raised error recorded.         *)
(***************************************************************************)
InitWalk ==
    /\ GEMINI_API_KEYS = InitialKeys
    /\ pc = "unit"
    /\ request = None
    /\ chart_image_base64 = b64encode(Payload(0, <<137>>))
    /\ \E w \in Walkers :
          sec = [v \in Walkers |->
                    IF v = w THEN [st |-> "ready", i |-> 0, value |-> None]
                    ELSE IdleSec]
    /\ calls = [w \in Walkers |-> <<>>]
    /\ errlog = [w \in Walkers |-> <<>>]
    /\ response = None
    /\ status_lines = <<>>
    /\ audit = TRUE
    /\ done_order = <<>>

NextWalk ==
    \/ \E w \in Walkers : CallGateway(w)
    \/ \E w \in Walkers, text \in Texts : GatewayReturn(w, text)
    \/ \E w \in Walkers, error_str \in GatewayErrors : GatewayRaise(w, error_str)

SpecWalk == InitWalk /\ [][NextWalk]_vars

(***************************************************************************)
(* One /api/analyze-stock request with an accepted image: the four section *)
(* tasks and the join.  SpecOrder records the order in which the tasks     *)
(* finish; SpecLive assumes that the event loop runs every task that can   *)
(* run and that every gateway call comes back.                             *)
(***************************************************************************)
ValidFiles == {f \in UploadFiles : ~IsHTTPException(process_uploaded_image(f))}

InitOrder ==
    /\ GEMINI_API_KEYS = InitialKeys
    /\ pc = "idle"
    /\ request = None
    /\ chart_image_base64 = None
    /\ sec = [w \in Walkers |-> IdleSec]
    /\ calls = [w \in Walkers |-> <<>>]
    /\ errlog = [w \in Walkers |-> <<>>]
    /\ response = None
    /\ status_lines = <<>>
    /\ audit = TRUE
    /\ done_order = <<>>

NextGather ==
    \/ pc = "idle" /\ \E image \in ValidFiles : analyze_stock_start(image)
    \/ \E w \in Sections : CallGateway(w)
    \/ \E w \in Sections, text \in Texts : GatewayReturn(w, text)
    \/ \E w \in Sections : GatewayRaise(w, e_503)
    \/ analyze_stock_join

SpecOrder == InitOrder /\ [][NextGather]_vars

GatewayResponds(w) ==
    \/ \E text \in Texts : GatewayReturn(w, text)
    \/ GatewayRaise(w, e_503)

FairGather ==
    /\ \A w \in Sections : WF_vars(CallGateway(w))
    /\ \A w \in Sections : WF_vars(GatewayResponds(w))
    /\ WF_vars(analyze_stock_join)

SpecLive == Init /\ [][NextGather]_vars /\ FairGather

(***************************************************************************)
(* The error classifier on its own, applied to texts of up to MaxWords     *)
(* words, each word a pattern word or a neutral word, in lower case, in    *)
(* upper case or capitalised.                                              *)
(***************************************************************************)
\* str.capitalize()
capitalize(s) == [k \in 1..Len(s) |-> IF k = 1 THEN upper_char(s[k]) ELSE lower_char(s[k])]

PatternWords ==
    {s_503, s_overloaded, s_unavailable, s_401, s_unauthorized, s_429,
     s_rate_limit, s_timeout, s_network, s_connection, s_file, s_size,
     s_invalid, s_image, e_other}

Words == PatternWords \cup {upper(w) : w \in PatternWords}
             \cup {capitalize(w) : w \in PatternWords}

RECURSIVE TextsOfWords(_)
TextsOfWords(n) ==
    IF n = 0 THEN {<<>>}
    ELSE IF n = 1 THEN Words
    ELSE {t \o <<" ">> \o w : t \in TextsOfWords(n - 1), w \in Words}

ErrorInputs == UNION {TextsOfWords(n) : n \in 0..MaxWords}

InitClassify ==
    /\ GEMINI_API_KEYS = InitialKeys
    /\ pc = "classify"
    /\ \E error_str \in ErrorInputs : request = [error_str |-> error_str]
    /\ chart_image_base64 = None
    /\ sec = [w \in Walkers |-> IdleSec]
    /\ calls = [w \in Walkers |-> <<>>]
    /\ errlog = [w \in Walkers |-> <<>>]
    /\ response = None
    /\ status_lines = <<>>
    /\ audit = FALSE
    /\ done_order = <<>>

\* One call of get_user_friendly_error(error_str).
classify ==
    /\ pc = "classify"
    /\ response' = [message |-> get_user_friendly_error(request.error_str)]
    /\ pc' = "done"
    /\ UNCHANGED <<GEMINI_API_KEYS, request, chart_image_base64, sec, calls,
                   errlog, status_lines, audit, done_order>>

NextClassify == classify

SpecClassify == InitClassify /\ [][NextClassify]_vars

Classified == pc = "done" /\ "error_str" \in DOMAIN request

\* The k-th pattern of the priority list matches the text, whatever its case.
PatternMatches(k, error_str) ==
    LET l == lower(error_str) IN
    IF k = 1 THEN Contains(l, s_503) \/ Contains(l, s_overloaded) \/ Contains(l, s_unavailable)
    ELSE IF k = 2 THEN Contains(l, s_401) \/ Contains(l, s_unauthorized)
    ELSE IF k = 3 THEN Contains(l, s_429) \/ Contains(l, s_rate_limit)
    ELSE IF k = 4 THEN Contains(l, s_timeout)
    ELSE IF k = 5 THEN Contains(l, s_network) \/ Contains(l, s_connection)
    ELSE IF k = 6 THEN Contains(l, s_file) /\ Contains(l, s_size)
    ELSE Contains(l, s_invalid) /\ Contains(l, s_image)

PriorityMessages ==
    <<MSG_BUSY, MSG_AUTH, MSG_THROTTLE, MSG_TIMEOUT, MSG_NETWORK, MSG_OVERSIZE,
      MSG_BADIMAGE>>

\* C13: the message is the one of the first pattern, in the order busy,
\* auth, throttle, timeout, network, file+size, invalid+image, that matches
\* the text; a text with both "429" and "503" gets the busy message.
C13_FirstMatchWins ==
    Classified
    => \A k \in 1..Len(PriorityMessages) :
          ( /\ PatternMatches(k, request.error_str)
            /\ \A j \in 1..(k - 1) : ~PatternMatches(j, request.error_str) )
          => response.message = PriorityMessages[k]

\* The text "429 503" was classified as busy.
C13_Witness ==
    /\ Classified
    /\ request.error_str = <<"4","2","9"," ","5","0","3">>
    /\ response.message = MSG_BUSY

\* C14: the message of a text is also the message of the same text in
\* upper case, in lower case and capitalised.
C14_CaseInsensitive ==
    Classified
    => /\ get_user_friendly_error(upper(request.error_str)) = response.message
       /\ get_user_friendly_error(lower(request.error_str)) = response.message
       /\ get_user_friendly_error(capitalize(request.error_str)) = response.message

\* The text "OVERLOADED Timeout" was classified as busy.
C14_Witness ==
    /\ Classified
    /\ request.error_str = <<"O","V","E","R","L","O","A","D","E","D"," ","T","i","m","e","o","u","t">>
    /\ response.message = MSG_BUSY

\* C15: every text gets one of the eight fixed messages, and a text that
\* matches none of the seven patterns gets the generic message.
C15_TotalWithGenericDefault ==
    Classified
    => /\ response.message \in
             {PriorityMessages[k] : k \in 1..Len(PriorityMessages)} \cup {MSG_GENERIC}
       /\ (\A k \in 1..Len(PriorityMessages) : ~PatternMatches(k, request.error_str))
          => response.message = MSG_GENERIC

\* The text "file boom", which matches no pattern, got the generic message.
C15_Witness ==
    /\ Classified
    /\ request.error_str = <<"f","i","l","e"," ","b","o","o","m">>
    /\ response.message = MSG_GENERIC

(***************************************************************************)
(* Properties of the fallback walk.                                        *)
(***************************************************************************)
N == Len(InitialKeys)

\* C1: in a walk where the calls for keys 1..k-1 raised and the call for key
\* k returned, exactly k gateway calls have been made (no key after k is ever
\* called) and the walk's result is exactly the text the k-th call returned.
C1_ShortCircuit ==
    \A w \in Walkers : \A k \in 1..Len(calls[w]) :
        ( /\ calls[w][k].out = "returned"
          /\ \A j \in 1..(k - 1) : calls[w][j].out = "raised" )
        => /\ Len(calls[w]) = k
           /\ \A j \in 1..k : calls[w][j].api_key = InitialKeys[j]
           /\ sec[w].st = "returned"
           /\ sec[w].value = calls[w][k].text

\* A walk whose first call raised and whose second call returned.
C1_Witness ==
    \E w \in Walkers :
        /\ Len(calls[w]) = 2
        /\ calls[w][1].out = "raised"
        /\ calls[w][2].out = "returned"
        /\ sec[w].st = "returned"

\* C2: when all N calls of a walk have raised, exactly N calls were made and
\* the walk fails with the message get_user_friendly_error gives for the
\* error of the N-th call.
C2_ExhaustedLastError ==
    \A w \in Walkers :
        /\ ( /\ Len(calls[w]) = N
             /\ \A j \in 1..N : calls[w][j].out = "raised" )
           => /\ sec[w].st = "raised"
              /\ Len(errlog[w]) = N
              /\ IsHTTPException(sec[w].value)
              /\ sec[w].value.detail = get_user_friendly_error(errlog[w][N])
        /\ sec[w].st = "raised"
           => /\ Len(calls[w]) = N
              /\ \A j \in 1..N : calls[w][j].out = "raised"

\* An exhausted walk whose earlier errors classify differently from its
\* last one.
C2_Witness ==
    \E w \in Walkers :
        /\ sec[w].st = "raised"
        /\ errlog[w] = <<e_401, e_429, e_503>>
        /\ sec[w].value.detail = MSG_BUSY

\* C3: the i-th gateway call of a walk uses the i-th key of the chain, and
\* no key is passed to the gateway twice within the walk.
C3_EachKeyOnceInOrder ==
    \A w \in Walkers :
        /\ Len(calls[w]) <= Len(GEMINI_API_KEYS)
        /\ \A k \in 1..Len(calls[w]) : calls[w][k].api_key = GEMINI_API_KEYS[k]
        /\ \A j, k \in 1..Len(calls[w]) :
               j # k => calls[w][j].api_key # calls[w][k].api_key

\* A walk that has gone through the whole chain.
C3_Witness ==
    \E w \in Walkers :
        /\ Len(calls[w]) = N
        /\ calls[w][N].api_key = "backup2"

\* C4: whenever a call that is not on the last key raises, whatever its
\* error, the walker moves to the next key, and the only step a walker
\* waiting at position i takes is the gateway call with key i+1.
C4_ErrorKindIrrelevant ==
    [][\A w \in Walkers :
          /\ ( /\ Len(errlog'[w]) = Len(errlog[w]) + 1
               /\ sec[w].i < N - 1 )
             => sec'[w] = [st |-> "ready", i |-> sec[w].i + 1, value |-> None]
          /\ ( /\ sec[w].st = "ready"
               /\ sec'[w] # sec[w] )
             => /\ Len(calls'[w]) = Len(calls[w]) + 1
                /\ calls'[w][Len(calls'[w])].api_key = GEMINI_API_KEYS[sec[w].i + 1]
                /\ calls'[w][Len(calls'[w])].out = "pending"]_vars

\* A walk that went on to the third key after an authentication failure
\* and an unclassified failure.
C4_Witness ==
    \E w \in Walkers :
        /\ errlog[w] = <<e_401, e_other>>
        /\ Len(calls[w]) = 3
        /\ calls[w][3].api_key = "backup2"

(***************************************************************************)
(* Properties of the analyze-stock orchestration.                          *)
(***************************************************************************)
IsAnalyze == "endpoint" \in DOMAIN request /\ request.endpoint = "analyze-stock"

\* The chain of walker w is exhausted: all N calls were made and raised.
Exhausted(w) ==
    /\ Len(calls[w]) = N
    /\ \A j \in 1..N : calls[w][j].out = "raised"

\* The last call of walker w returned a text.
Succeeded(w) ==
    /\ Len(calls[w]) > 0
    /\ calls[w][Len(calls[w])].out = "returned"

SectionField(r, k) ==
    IF k = 1 THEN r.fundamental_analysis
    ELSE IF k = 2 THEN r.sentiment_analysis
    ELSE IF k = 3 THEN r.technical_analysis
    ELSE r.recommendations

\* C5: an analyze-stock request whose image was accepted ends with status
\* 200 whatever set of sections exhausted its chain; each exhausted section
\* holds its placeholder and every other section the text its successful
\* call returned.
C5_PartialFailure ==
    ( /\ IsAnalyze
      /\ pc = "done"
      /\ ~IsHTTPException(process_uploaded_image(request.image)) )
    => /\ response.status_code = 200
       /\ \A k \in 1..Len(section_names) :
             LET w == section_names[k] IN
             /\ Exhausted(w) \/ Succeeded(w)
             /\ Exhausted(w) =>
                   SectionField(response, k) =
                     [text |-> <<w, " analysis temporarily unavailable. Please try again.">>]
             /\ Succeeded(w) =>
                   SectionField(response, k) = calls[w][Len(calls[w])].text

\* A response in which two sections are exhausted and two succeeded.
C5_Witness ==
    /\ IsAnalyze
    /\ pc = "done"
    /\ response.status_code = 200
    /\ Exhausted("Fundamental")
    /\ Exhausted("Technical")
    /\ Succeeded("Sentiment")
    /\ Succeeded("Recommendations")

\* C6: the step in which one section fails leaves every other section as it
\* was (nothing is cancelled), and a response to an analyze-stock request
\* with an accepted image exists only once all four sections have finished.
C6_JoinWaitsForAll ==
    [][/\ \A w, v \in Sections :
            ( /\ w # v
              /\ sec[w].st # "raised"
              /\ sec'[w].st = "raised" )
            => sec'[v] = sec[v]
       /\ ( /\ IsAnalyze'
            /\ chart_image_base64' # None
            /\ response' # None )
          => \A w \in Sections : sec'[w].st \in {"returned", "raised"}]_vars

\* One section has failed while another still has a call in flight, and no
\* response exists yet.
C6_Witness ==
    /\ IsAnalyze
    /\ response = None
    /\ \E w, v \in Sections : sec[w].st = "raised" /\ sec[v].st = "inflight"

\* The walk state that follows from a walker's own call log.
WalkOf(log, errs) ==
    IF Len(log) = 0 THEN [st |-> "ready", i |-> 0, value |-> None]
    ELSE LET last == log[Len(log)] IN
         IF last.out = "pending"
         THEN [st |-> "inflight", i |-> Len(log) - 1, value |-> None]
         ELSE IF last.out = "returned"
         THEN [st |-> "returned", i |-> Len(log) - 1, value |-> last.text]
         ELSE IF Len(log) = N
         THEN [st |-> "raised", i |-> N - 1,
               value |-> [exc |-> "HTTPException", status_code |-> 503,
                          detail |-> get_user_friendly_error(errs[Len(errs)])]]
         ELSE [st |-> "ready", i |-> Len(log), value |-> None]

\* C7: in every step the key chain is left as it is, a step of one section
\* leaves the position, log and result of the other sections unchanged, and
\* whenever a section's position, log or result changes, the new position,
\* keys and outcome are the ones that follow from the outcomes of its own
\* calls.
C7_SectionsIsolated ==
    [][/\ GEMINI_API_KEYS' = GEMINI_API_KEYS
       /\ \A w \in Sections :
            calls'[w] # calls[w]
            => \A v \in Sections \ {w} : sec'[v] = sec[v] /\ calls'[v] = calls[v]
       /\ ( /\ IsAnalyze'
            /\ chart_image_base64' # None )
          => \A w \in Sections :
                (sec'[w] # sec[w] \/ calls'[w] # calls[w])
                => /\ sec'[w] = WalkOf(calls'[w], errlog'[w])
                   /\ \A k \in 1..Len(calls'[w]) :
                         calls'[w][k].api_key = InitialKeys[k]]_vars

\* Three sections at different points of their walks at the same time.
C7_Witness ==
    /\ IsAnalyze
    /\ pc = "gather"
    /\ sec["Fundamental"].st = "inflight" /\ sec["Fundamental"].i = 2
    /\ sec["Sentiment"].st = "returned" /\ sec["Sentiment"].i = 0
    /\ sec["Technical"].st = "raised"
    /\ sec["Recommendations"].st = "ready" /\ sec["Recommendations"].i = 1

\* The upload is empty, too large, or declares a type that is not image/*.
ValidationFails(image) ==
    /\ image.read_error = NoneStr
    /\ \/ len(image.content) = 0
       \/ len(image.content) > 10 * 1024 * 1024
       \/ /\ image.content_type # NoneStr
          /\ ~startswith(image.content_type, s_image_slash)

\* C8: an analyze-stock request whose image fails validation ends with a
\* 400 error, carries no section text, and no gateway call is ever issued.
C8_InvalidImageAborts ==
    ( /\ IsAnalyze
      /\ ValidationFails(request.image) )
    => /\ pc = "done"
       /\ IsHTTPException(response)
       /\ response.status_code = 400
       /\ DOMAIN response = {"exc", "status_code", "detail"}
       /\ \A w \in Walkers : calls[w] = <<>> /\ sec[w].st = "idle"

\* An analyze-stock request with an empty image/png upload was refused.
C8_Witness ==
    /\ IsAnalyze
    /\ len(request.image.content) = 0
    /\ request.image.content_type = ct_image_png
    /\ request.image.read_error = NoneStr
    /\ response.status_code = 400

(***************************************************************************)
(* Properties of the Image Ingestor.                                       *)
(***************************************************************************)
\* The request went through process_uploaded_image and its bytes were read.
IngestedByServer ==
    /\ "endpoint" \in DOMAIN request
    /\ request.endpoint \in {"upload-image", "analyze-stock"}
    /\ request.image.read_error = NoneStr

\* C9: every payload of 0 bytes is rejected with the 'uploaded file is
\* empty' message, whatever its content type and whether it has one.
C9_EmptyAlwaysEmptyPayload ==
    ( /\ IngestedByServer
      /\ len(request.image.content) = 0 )
    => /\ IsHTTPException(response)
       /\ response.detail = MSG_EMPTY

\* The serverless handler reached the read of the uploaded file.
IngestedByHandler ==
    /\ "endpoint" \in DOMAIN request
    /\ request.endpoint = "api/upload-image.py"
    /\ request.form.multipart
    /\ request.form.has_file
    /\ request.form.filename # ""

TooLarge(r) ==
    \/ "detail" \in DOMAIN r /\ r.detail = MSG_TOO_LARGE
    \/ "error" \in DOMAIN r /\ r.error = MSG_TOO_LARGE

Rejected(r) == "detail" \in DOMAIN r \/ "error" \in DOMAIN r

\* C10: an upload is answered with the too-large error exactly when it has
\* more than 10*1024*1024 bytes; one of exactly that many bytes with an
\* image/* content type is accepted.
C10_TooLargeExactlyAboveLimit ==
    (IngestedByServer \/ IngestedByHandler)
    => /\ TooLarge(response) <=> len(request.image.content) > 10 * 1024 * 1024
       /\ ( /\ len(request.image.content) = 10 * 1024 * 1024
            /\ startswith(request.image.content_type, s_image_slash) )
          => ~Rejected(response)

\* An image/png upload of exactly 10 MiB was accepted by /api/upload-image.
C10_Witness ==
    /\ IngestedByServer
    /\ request.endpoint = "upload-image"
    /\ len(request.image.content) = 10 * 1024 * 1024
    /\ response.status_code = 200

InvalidType(r) == "detail" \in DOMAIN r /\ r.detail = MSG_INVALID_TYPE

\* C11 as stated: the ingestor answers InvalidMediaType only for a declared
\* content type that does not begin with image/, and accepts a non-empty
\* payload of at most 10 MiB that declares no content type.
C11_MissingTypeAccepted ==
    IngestedByServer
    => /\ InvalidType(response)
          => /\ request.image.content_type # NoneStr
             /\ ~startswith(request.image.content_type, s_image_slash)
       /\ ( /\ len(request.image.content) > 0
            /\ len(request.image.content) <= 10 * 1024 * 1024
            /\ request.image.content_type = NoneStr )
          => ~Rejected(response)

\* C11 as amended: the ingestor answers InvalidMediaType exactly when the
\* payload has at most 10 MiB and its content type is missing, empty or does
\* not begin with image/; a non-empty payload of at most 10 MiB without a
\* content type is rejected with InvalidMediaType.
C11_MissingTypeRejected ==
    IngestedByServer
    => ( InvalidType(response)
         <=> /\ len(request.image.content) <= 10 * 1024 * 1024
             /\ \/ request.image.content_type = NoneStr
                \/ request.image.content_type = <<>>
                \/ ~startswith(request.image.content_type, s_image_slash) )

\* A one-byte upload without a content type was refused as an invalid type.
C11_Witness ==
    /\ IngestedByServer
    /\ len(request.image.content) = 1
    /\ request.image.content_type = NoneStr
    /\ InvalidType(response)
    /\ response.status_code = 400

\* The standard base64 decoding of a text of whole 4-character groups.
B64Index(c) == CHOOSE n \in 0..63 : B64Alphabet[n + 1] = c

RECURSIVE b64decode_text(_)
b64decode_text(cs) ==
    IF Len(cs) < 4 THEN <<>>
    ELSE LET i1 == B64Index(cs[1])
             i2 == B64Index(cs[2])
         IN  IF cs[3] = "="
             THEN <<(i1 * 4 + i2 \div 16) % 256>>
             ELSE IF cs[4] = "="
             THEN LET i3 == B64Index(cs[3]) IN
                  <<(i1 * 4 + i2 \div 16) % 256,
                    ((i2 % 16) * 16 + i3 \div 4) % 256>>
             ELSE LET i3 == B64Index(cs[3])
                      i4 == B64Index(cs[4])
                  IN  <<(i1 * 4 + i2 \div 16) % 256,
                        ((i2 % 16) * 16 + i3 \div 4) % 256,
                        ((i3 % 4) * 64 + i4) % 256>>
                      \o b64decode_text(SubSeq(cs, 5, Len(cs)))

\* Each leading "AAAA" group of the encoded text decodes to three zero bytes.
b64decode(encoded) ==
    [groups |-> encoded.groups, tail |-> b64decode_text(encoded.text)]

\* C12: for every accepted upload the text the ingestor returns decodes to
\* exactly the uploaded bytes, and the chart_image of an analyze-stock
\* response is the data-URI prefix followed by that same text.
C12_RoundTrip ==
    ( /\ IngestedByServer
      /\ ~Rejected(response) )
    => IF request.endpoint = "upload-image"
       THEN b64decode(response.image_data) = request.image.content
       ELSE /\ b64decode(chart_image_base64) = request.image.content
            /\ pc = "done"
               => /\ response.chart_image.prefix = "data:image/png;base64,"
                  /\ response.chart_image.data = chart_image_base64

\* An analyze-stock response whose chart_image carries the encoding "iQ=="
\* of the one uploaded byte 137.
C12_Witness ==
    /\ IsAnalyze
    /\ pc = "done"
    /\ request.image.content = [groups |-> 0, tail |-> <<137>>]
    /\ response.status_code = 200
    /\ response.chart_image.data.text = <<"i", "Q", "=", "=">>

(***************************************************************************)
(* Properties of the serverless handlers.                                  *)
(***************************************************************************)
IsServerless ==
    /\ "endpoint" \in DOMAIN request
    /\ request.endpoint \in {"api/upload-image.py", "api/analyze-stock.py"}

\* C16: a serverless request that is answered with the error envelope has
\* sent exactly one status line, and it is 400.
C16_SingleStatusLine ==
    ( /\ IsServerless
      /\ "error" \in DOMAIN response )
    => status_lines = <<400>>

\* C17: the text a response shows for a failed AI call is fixed by the
\* section that failed and embeds nothing of the error: the section's
\* placeholder on /api/analyze-stock, an analysis text without the error in
\* the serverless handler.
C17_NoRawErrorInFailureText ==
    /\ ( /\ IsAnalyze
         /\ pc = "done"
         /\ ~IsHTTPException(response) )
       => \A k \in 1..Len(section_names) :
             sec[section_names[k]].st = "raised"
             => SectionField(response, k) =
                  [text |-> <<section_names[k],
                              " analysis temporarily unavailable. Please try again.">>]
    /\ ( /\ IsServerless
         /\ request.endpoint = "api/analyze-stock.py"
         /\ "analysis" \in DOMAIN response
         /\ request.outcome.kind = "raise" )
       => "embedded" \notin DOMAIN response.analysis

(***************************************************************************)
(* Properties of the error boundary and of the legacy endpoint.            *)
(***************************************************************************)
UserMessages ==
    {MSG_BUSY, MSG_AUTH, MSG_THROTTLE, MSG_TIMEOUT, MSG_NETWORK, MSG_OVERSIZE,
     MSG_BADIMAGE, MSG_GENERIC, MSG_TOO_LARGE, MSG_INVALID_TYPE, MSG_EMPTY}

IsLegacy ==
    "endpoint" \in DOMAIN request /\ request.endpoint = "analyze-stock-legacy"

\* C18: every error the upload-image, analyze-stock and analyze-stock-legacy
\* endpoints return carries one of the fixed user-facing messages and no raw
\* exception text.
C18_OnlyUserMessages ==
    ( /\ "endpoint" \in DOMAIN request
      /\ request.endpoint \in {"upload-image", "analyze-stock", "analyze-stock-legacy"}
      /\ IsHTTPException(response) )
    => ( /\ response.detail \in UserMessages
         /\ "embedded" \notin DOMAIN response )

\* C19: a legacy request whose chart was fetched and whose walk got a text
\* from some key ends with a success response: analysis is that text, symbol
\* and exchange are the upper-cased inputs.
C19_LegacySuccess ==
    ( /\ IsLegacy
      /\ pc = "done"
      /\ request.fetch.kind = "ok"
      /\ sec["Legacy"].st = "returned" )
    => ( /\ ~IsHTTPException(response)
         /\ response.analysis = sec["Legacy"].value
         /\ response.symbol = upper(request.symbol)
         /\ response.exchange = upper(request.exchange) )

\* C20: a legacy request whose chart fetch got a non-200 answer or raised
\* has ended with an error response, and no gateway call is issued for it.
C20_FetchFailureTerminal ==
    ( /\ IsLegacy
      /\ request.fetch.kind # "ok" )
    => ( /\ pc = "done"
         /\ IsHTTPException(response)
         /\ \A w \in Walkers : calls[w] = <<>> /\ sec[w] = IdleSec )

C20_Witness ==
    /\ IsLegacy
    /\ request.fetch.kind = "status"
    /\ pc = "done"
    /\ IsHTTPException(response)
    /\ response.status_code = 500
    /\ calls["Legacy"] = <<>>

(***************************************************************************)
(* Properties of the concurrent section tasks.                             *)
(***************************************************************************)
TotalCalls ==
    Len(calls["Fundamental"]) + Len(calls["Sentiment"])
    + Len(calls["Technical"]) + Len(calls["Recommendations"])

\* C21: when every gateway call comes back, an analyze-stock request whose
\* image was accepted produces its response, and it has then made at least
\* 4 and at most 4*N gateway calls.
C21_ResponseWithinCallBudget ==
    /\ (IsAnalyze /\ pc = "gather") ~> (pc = "done" /\ response # None)
    /\ []( ( /\ IsAnalyze
              /\ pc = "done"
              /\ ~IsHTTPException(response) )
           => ( /\ TotalCalls >= Cardinality(Sections)
                /\ TotalCalls <= Cardinality(Sections) * N ) )

\* A response produced after every section has tried every key.
C21_Witness ==
    /\ IsAnalyze
    /\ pc = "done"
    /\ response.status_code = 200
    /\ TotalCalls = 4 * N

\* C22: while a gateway call of a section has not come back, the section is
\* not finished and the request has no response; nothing but the call
\* coming back ends the section's wait.
C22_HungCallBlocksResponse ==
    /\ []( ( /\ IsAnalyze
              /\ \E w \in Sections : sec[w].st = "inflight" )
           => ( /\ pc = "gather"
                /\ response = None ) )
    /\ [][ \A w \in Sections :
             ( /\ sec[w].st = "inflight"
               /\ sec'[w] # sec[w] )
             => calls'[w][Len(calls'[w])].out \in {"returned", "raised"} ]_vars

\* Three sections have finished, the call of the fourth is pending, and
\* the request has no response.
C22_Witness ==
    /\ IsAnalyze
    /\ pc = "gather"
    /\ response = None
    /\ sec["Technical"].st = "inflight"
    /\ \A w \in Sections \ {"Technical"} : Finished(w)

\* C23: every gateway call of the Technical section carries the encoded
\* image of the request, and no call of the Fundamental, Sentiment or
\* Recommendations section carries an image, on every key.
C23_ImageOnlyForTechnical ==
    IsAnalyze =>
        \A w \in Sections : \A k \in 1..Len(calls[w]) :
            IF w = "Technical"
            THEN /\ message_image(calls[w][k].image) # None
                 /\ message_image(calls[w][k].image) = b64encode(request.image.content)
            ELSE message_image(calls[w][k].image) = None

\* Technical and Fundamental have both tried every key.
C23_Witness ==
    /\ IsAnalyze
    /\ Len(calls["Technical"]) = N
    /\ Len(calls["Fundamental"]) = N
    /\ calls["Technical"][N].image = b64encode(request.image.content)
    /\ calls["Fundamental"][N].image = None

\* C24: in whatever order the four tasks finished, each field of the
\* response holds the outcome of the section of that name, and a placeholder
\* names a section that failed and stands in that section's field.
C24_OutcomeInOwnField ==
    ( /\ IsAnalyze
      /\ pc = "done"
      /\ ~IsHTTPException(response) )
    => /\ \A k \in 1..Len(section_names) :
             LET w == section_names[k] IN
             SectionField(response, k) =
                IF sec[w].st = "raised" THEN Placeholder(w)
                ELSE calls[w][Len(calls[w])].text
       /\ \A k, j \in 1..Len(section_names) :
             SectionField(response, k) = Placeholder(section_names[j])
             => j = k /\ sec[section_names[j]].st = "raised"

\* The tasks finished in the reverse of their order in gather; Sentiment
\* failed and Fundamental and Technical returned different texts.
C24_Witness ==
    /\ IsAnalyze
    /\ pc = "done"
    /\ done_order = <<"Recommendations", "Technical", "Sentiment", "Fundamental">>
    /\ sec["Sentiment"].st = "raised"
    /\ sec["Fundamental"].st = "returned"
    /\ sec["Technical"].st = "returned"
    /\ sec["Fundamental"].value # sec["Technical"].value
    /\ response.sentiment_analysis = Placeholder("Sentiment")

TypeOK ==
    /\ pc \in {"idle", "gather", "legacy", "done", "unit"}
    /\ \A w \in Walkers : sec[w].st \in {"idle", "ready", "inflight", "returned", "raised"}

====
